---- MODULE Spec2Model ----
(***************************************************************************)
(* Model of the live reconciliation loop of the trading desk               *)
(* (src/live.py run_live and its helpers, src/risk.py validate_targets)    *)
(* together with the broker interface it calls (src/broker_ibkr.py).       *)
(*                                                                         *)
(* Number representation                                                   *)
(*   weights and risk limits : integers in units of 1e-9 (WOne = 1.0)      *)
(*   money and prices        : integers in units of 0.001 (mills)          *)
(*   share quantities        : integers                                    *)
(* A float division is modelled as round-to-nearest (ties to even) on the  *)
(* grid, as IEEE-754 division rounds to the nearest representable value.   *)
(***************************************************************************)
EXTENDS Integers, Sequences, FiniteSets, TLC

\* ------------------------------------------------------------------ bounds
MaxIter == 2
\* calls of _append_snapshot_log in a row
MaxSnapshots == 3
\* longest price series handed to the backtest
MaxPrices == 5

\* --------------------------------------------------------------- constants
\* 1.0 as a weight, in units of 1e-9
WOne == 1000000000
\* the 1e-9 tolerance of the gross exposure check, in weight units
Tol == 1
\* 1.0 as a return, a cost or an equity, in units of 1e-4 (one basis point)
BpsOne == 10000
\* the TWS API ports of the paper and of the live account
TWS_PAPER_PORT == 7497
TWS_LIVE_PORT == 7496
\* split of a weight into a high and a low limb (32-bit safe products)
Limb == WOne \div 1000

\* universe of the live loop (cfg['universe']['symbols']) and other tickers
Universe == <<"SPY", "QQQ">>
Universe3 == <<"SPY", "QQQ", "IWM">>
AllSyms == {"SPY", "QQQ", "IWM", "NOT_A_TICKER"}
\* iteration order of a dict keyed by ticker (insertion order of the callers)
SymOrder == <<"SPY", "QQQ", "IWM", "NOT_A_TICKER">>

\* ----------------------------------------------------------------- helpers
Range(s) == {s[k] : k \in 1..Len(s)}

Abs(x) == IF x < 0 THEN -x ELSE x

Min2(a, b) == IF a <= b THEN a ELSE b

Max2(a, b) == IF a >= b THEN a ELSE b

IsPrefix(s, t) == Len(s) <= Len(t) /\ \A k \in 1..Len(s) : s[k] = t[k]

\* num / den rounded to the nearest integer, ties to even (den > 0)
RoundHalfEven(num, den) ==
  LET q == num \div den
      r == num - q * den
  IN  IF 2 * r < den THEN q
      ELSE IF 2 * r > den THEN q + 1
      ELSE IF q % 2 = 0 THEN q ELSE q + 1

RECURSIVE SumOver(_, _)
SumOver(f, S) ==
  IF S = {} THEN 0
  ELSE LET x == CHOOSE y \in S : TRUE
       IN  f[x] + SumOver(f, S \ {x})

\* the members of S in dict iteration order
InOrder(S) == SelectSeq(SymOrder, LAMBDA s : s \in S)

\* --------------------------------------------------------- src/risk.py
\* validate_targets: the four checks, each appending to the error list
UnknownErrors(targets, universe) ==
  LET unknown == {s \in DOMAIN targets : s \notin Range(universe)}
  IN  IF unknown # {} THEN << [kind |-> "unknown", syms |-> unknown] >> ELSE << >>

ShortErrors(targets) ==
  LET bad == InOrder({s \in DOMAIN targets : targets[s] < 0})
  IN  [k \in 1..Len(bad) |-> [kind |-> "short", syms |-> {bad[k]}]]

SizeErrors(targets, max_position_pct) ==
  LET bad == InOrder({s \in DOMAIN targets : targets[s] > max_position_pct})
  IN  [k \in 1..Len(bad) |-> [kind |-> "size", syms |-> {bad[k]}]]

GrossErrors(targets, max_gross_exposure) ==
  LET gross == SumOver(targets, DOMAIN targets)
  IN  IF gross > max_gross_exposure + Tol
      THEN << [kind |-> "gross", syms |-> {}] >> ELSE << >>

\* (mutant) the checks stop at the first one that finds an error
ValidateTargetsShortCircuit(targets, universe, max_position_pct, max_gross_exposure) ==
  LET e1 == UnknownErrors(targets, universe)
      e2 == ShortErrors(targets)
      e3 == SizeErrors(targets, max_position_pct)
      e4 == GrossErrors(targets, max_gross_exposure)
      errors == IF e1 # << >> THEN e1 ELSE IF e2 # << >> THEN e2
                ELSE IF e3 # << >> THEN e3 ELSE e4
  IN  [ok |-> Len(errors) = 0, errors |-> errors]

validate_targets(targets, universe, max_position_pct, max_gross_exposure) ==
  LET errors == UnknownErrors(targets, universe)
                \o ShortErrors(targets)
                \o SizeErrors(targets, max_position_pct)
                \o GrossErrors(targets, max_gross_exposure)
  IN  [ok |-> Len(errors) = 0, errors |-> errors]

\* --------------------------------------------------------- src/live.py
\* float division max_gross_exposure / len(longs)
FloatDiv(a, n) == RoundHalfEven(a, n)

\* (mutant) the per-name weight is not capped at max_position_pct
SignalsToWeightsUncapped(signals, max_position_pct, max_gross_exposure) ==
  LET longs == {s \in DOMAIN signals : signals[s] = 1}
  IN  [s \in DOMAIN signals |->
        IF s \in longs THEN RoundHalfEven(max_gross_exposure, Cardinality(longs)) ELSE 0]

_signals_to_weights(signals, max_position_pct, max_gross_exposure) ==
  LET longs == {s \in DOMAIN signals : signals[s] = 1}
      per_name == Min2(FloatDiv(max_gross_exposure, Cardinality(longs)),
                       max_position_pct)
  IN  IF longs = {} THEN [s \in DOMAIN signals |-> 0]
      ELSE [s \in DOMAIN signals |-> IF s \in longs THEN per_name ELSE 0]

\* Optional[float]: None is the empty set, a value v is {v}
None == {}

Some(v) == {v}

\* dict.get(key, default)
Get(d, key, default) == IF key \in DOMAIN d THEN d[key] ELSE default

\* d[key] = value
Put(d, key, value) == [k \in DOMAIN d \cup {key} |-> IF k = key THEN value ELSE d[k]]

EmptyDict == [k \in {} |-> 0]

\* _parse_portfolio_value: NetLiquidation of the summary as a number (mills);
\* a missing tag defaults to "0", an unparsable or empty value gives 0.0
_parse_portfolio_value(summary) ==
  IF summary.kind = "value" THEN summary.v ELSE 0

\* bars["close"].astype(float).dropna()
DropNa(bars) ==
  LET keep == SelectSeq([k \in 1..Len(bars.close) |-> k], LAMBDA k : ~bars.isna[k])
  IN  [k \in 1..Len(keep) |-> bars.close[keep[k]]]

\* sign of pct_change: cur / prev - 1 (prev = 0 gives +-inf, 0/0 gives NaN)
RetIsNaN(prev, cur) == prev = 0 /\ cur = 0

RetSign(prev, cur) ==
  IF prev = 0 THEN (IF cur > 0 THEN 1 ELSE IF cur < 0 THEN -1 ELSE 0)
  ELSE LET d == IF prev > 0 THEN cur - prev ELSE prev - cur
       IN  IF d > 0 THEN 1 ELSE IF d < 0 THEN -1 ELSE 0

\* (mutant) the latest signal is taken from the latest return
LatestSignalFromLastReturn(prices) ==
  LET n == Len(prices)
  IN  IF n < 2 THEN 0
      ELSE IF RetIsNaN(prices[n - 1], prices[n]) THEN 0
      ELSE -RetSign(prices[n - 1], prices[n])

\* src/backtest.py latest_reversal_signal: -sign(ret.shift(1)).fillna(0).iloc[-1]
latest_reversal_signal(prices) ==
  LET n == Len(prices)
  IN  IF n < 2 THEN 0
      ELSE IF n < 3 THEN 0
      ELSE IF RetIsNaN(prices[n - 2], prices[n - 1]) THEN 0
      ELSE -RetSign(prices[n - 2], prices[n - 1])

\* df["close"].pct_change() at one row, in units of 1e-4 (prev > 0)
PctChange(prev, cur) == RoundHalfEven((cur - prev) * BpsOne, prev)

\* (mutant) the signal of row t is taken from the return of row t itself
SignalAtSameRow(close, t) ==
  IF t < 2 THEN 0
  ELSE IF RetIsNaN(close[t - 1], close[t]) THEN 0
  ELSE -RetSign(close[t - 1], close[t])

\* -np.sign(df["ret"].shift(1)).fillna(0.0) at row t (rows counted from 1)
SignalAt(close, t) ==
  IF t < 3 THEN 0
  ELSE IF RetIsNaN(close[t - 2], close[t - 1]) THEN 0
  ELSE -RetSign(close[t - 2], close[t - 1])

\* (mutant) the change of position keeps its sign: no abs()
TurnoverAtSigned(close, t) ==
  IF t < 2 THEN 0 ELSE SignalAt(close, t) - SignalAt(close, t - 1)

\* (df["signal"] - df["signal"].shift(1)).abs().fillna(0.0) at row t
TurnoverAt(close, t) ==
  IF t < 2 THEN 0 ELSE Abs(SignalAt(close, t) - SignalAt(close, t - 1))

\* cost * df["turnover"] at row t, cost = cost_bps / 10_000, in units of 1e-4
CostAt(close, cost_bps, t) == cost_bps * TurnoverAt(close, t)

\* (df["signal"] * df["ret"]).fillna(0.0) - df["cost"] at row t
PnlAt(close, cost_bps, t) ==
  (IF t < 2 THEN 0 ELSE SignalAt(close, t) * PctChange(close[t - 1], close[t]))
  - CostAt(close, cost_bps, t)

\* (1.0 + df["pnl"]).cumprod() at row t, in units of 1e-4
RECURSIVE EquityAt(_, _, _)
EquityAt(close, cost_bps, t) ==
  IF t < 1 THEN BpsOne
  ELSE RoundHalfEven(EquityAt(close, cost_bps, t - 1) * (BpsOne + PnlAt(close, cost_bps, t)),
                     BpsOne)

\* src/backtest.py short_term_reversal_backtest: the rows of the frame returned
short_term_reversal_backtest(prices, cost_bps) ==
  LET close == DropNa(prices)
  IN  [t \in 1..Len(close) |->
        [close    |-> close[t],
         ret      |-> IF t < 2 THEN None ELSE Some(PctChange(close[t - 1], close[t])),
         signal   |-> SignalAt(close, t),
         turnover |-> TurnoverAt(close, t),
         cost     |-> CostAt(close, cost_bps, t),
         pnl      |-> PnlAt(close, cost_bps, t),
         equity   |-> EquityAt(close, cost_bps, t)]]

\* |pv * w / price| rounded half to even, for pv, w >= 0 and price > 0:
\* pv and price in mills, w in units of 1e-9, computed limb by limb
RoundMag(pv, w, price) ==
  LET a == w \div Limb
      b == w % Limb
      x0 == pv * b
      y == pv * a + (x0 \div Limb)
      frac == x0 % Limb
      d == price * (WOne \div Limb)
      q == y \div d
      r == y % d
      up == \/ 2 * r > d
            \/ 2 * r = d /\ frac > 0
            \/ 2 * r = d - 1 /\ 2 * frac > Limb
      tie == \/ 2 * r = d /\ frac = 0
             \/ 2 * r = d - 1 /\ 2 * frac = Limb
  IN  IF up THEN q + 1
      ELSE IF tie THEN (IF q % 2 = 0 THEN q ELSE q + 1)
      ELSE q

\* (mutant) int(raw) without round: truncation toward zero
RoundRawTruncated(pv, w, price) ==
  LET a == Abs(w) \div Limb
      b == Abs(w) % Limb
      y == Abs(pv) * a + ((Abs(pv) * b) \div Limb)
      q == y \div (price * (WOne \div Limb))
  IN  IF (pv < 0) # (w < 0) THEN -q ELSE q

\* int(round((portfolio_value * w) / price))
RoundRaw(pv, w, price) ==
  IF (pv < 0) # (w < 0) THEN -RoundMag(Abs(pv), Abs(w), price)
  ELSE RoundMag(Abs(pv), Abs(w), price)

\* step 4, one symbol: target share count from weight and latest close
TargetShares(pv, w, price) ==
  IF price = None \/ (\E p \in price : p <= 0) THEN 0
  ELSE LET p == CHOOSE x \in price : TRUE
       IN  Max2(0, RoundRaw(pv, w, p))

\* step 4: target_shares over the universe
target_shares_of(symbols, pv, weights, closes) ==
  [s \in Range(symbols) |->
     TargetShares(pv, Get(weights, s, 0),
                  IF s \in DOMAIN closes THEN Some(closes[s]) ELSE None)]

\* (mutant) a SELL keeps the sign of delta as its quantity
TradeForSignedQty(sym, current, target) ==
  LET delta == target - current
  IN  IF delta > 0 THEN << [symbol |-> sym, side |-> "BUY", qty |-> delta] >>
      ELSE IF delta < 0 THEN << [symbol |-> sym, side |-> "SELL", qty |-> delta] >>
      ELSE << >>

\* step 4, one symbol: the trade (if any) that moves current to target
TradeFor(sym, current, target) ==
  LET delta == target - current
  IN  IF delta > 0 THEN << [symbol |-> sym, side |-> "BUY", qty |-> delta] >>
      ELSE IF delta < 0 THEN << [symbol |-> sym, side |-> "SELL", qty |-> -delta] >>
      ELSE << >>

RECURSIVE trades_to_make_of(_, _, _)
trades_to_make_of(symbols, current, targets) ==
  IF symbols = << >> THEN << >>
  ELSE TradeFor(Head(symbols), Get(current, Head(symbols), 0),
                Get(targets, Head(symbols), 0))
       \o trades_to_make_of(Tail(symbols), current, targets)

\* ------------------------------------------------------------ journals
\* A CSV file is the sequence of its lines; << >> is the absent file.
TradeHeader ==
  [kind |-> "header",
   cols |-> <<"timestamp", "symbol", "side", "quantity", "fill_price",
             "reference_price", "signal_value">>]

PortfolioHeader ==
  [kind |-> "header",
   cols |-> <<"timestamp", "symbol", "position", "avg_cost", "unrealized_pnl">>]

SnapshotHeader ==
  [kind |-> "header",
   cols |-> <<"timestamp", "portfolio_value", "daily_pnl", "running_pnl">>]

\* (mutant) the file is opened for writing whether or not it exists
EnsureLogCsvTruncate(file, header) == << header >>

\* _ensure_log_csv: create the file with its header if it does not exist
_ensure_log_csv(file, header) ==
  IF file = << >> THEN << header >> ELSE file

\* (mutant) signal_value and reference_price passed in each other's place
AppendTradeLogSwapped(file, ts, symbol, side, quantity, fill_price, signal_value, reference_price) ==
  Append(IF file = << >> THEN << TradeHeader >> ELSE file,
         [kind |-> "row", timestamp |-> ts, symbol |-> symbol, side |-> side,
          quantity |-> quantity, fill_price |-> fill_price,
          reference_price |-> signal_value, signal_value |-> reference_price])

\* _append_trade_log: ensure the file, then append one row
_append_trade_log(file, ts, symbol, side, quantity, fill_price, signal_value, reference_price) ==
  Append(_ensure_log_csv(file, TradeHeader),
         [kind |-> "row", timestamp |-> ts, symbol |-> symbol, side |-> side,
          quantity |-> quantity, fill_price |-> fill_price,
          reference_price |-> reference_price, signal_value |-> signal_value])

\* f"{x:.2f}": a money amount in mills written with two decimals (cents)
Fmt2(x) == RoundHalfEven(x, 10)

\* float("123.45"): the cents read back as mills
ParseFloat2(c) == c * 10

\* _read_snapshot_history: portfolio_value of every data row, in file order
_read_snapshot_history(file) ==
  IF file = << >> THEN << >>
  ELSE LET rows == SelectSeq(file, LAMBDA r : r.kind = "row")
       IN  [k \in 1..Len(rows) |-> ParseFloat2(rows[k].portfolio_value)]

\* (mutant) the running P&L measured from the previous row, not the first
SnapshotPnlPrevBaseline(file, portfolio_value) ==
  LET rows == SelectSeq(file, LAMBDA r : r.kind = "row")
  IN  IF rows # << >>
      THEN [daily_pnl   |-> Some(portfolio_value - 10 * rows[Len(rows)].portfolio_value),
            running_pnl |-> Some(portfolio_value - 10 * rows[Len(rows)].portfolio_value)]
      ELSE [daily_pnl |-> None, running_pnl |-> None]

\* _append_snapshot_log: (daily_pnl, running_pnl) returned and the file after
SnapshotPnl(file, portfolio_value) ==
  LET history == _read_snapshot_history(_ensure_log_csv(file, SnapshotHeader))
  IN  IF history # << >>
      THEN [daily_pnl   |-> Some(portfolio_value - history[Len(history)]),
            running_pnl |-> Some(portfolio_value - history[1])]
      ELSE [daily_pnl |-> None, running_pnl |-> None]

_append_snapshot_log(file, ts, portfolio_value) ==
  LET pnl == SnapshotPnl(file, portfolio_value)
  IN  Append(_ensure_log_csv(file, SnapshotHeader),
             [kind |-> "row", timestamp |-> ts,
              portfolio_value |-> Fmt2(portfolio_value),
              daily_pnl   |-> {Fmt2(v) : v \in pnl.daily_pnl},
              running_pnl |-> {Fmt2(v) : v \in pnl.running_pnl}])

\* _append_portfolio_log, one row: unrealized P&L of a position
UnrealizedPnl(p, latest_closes) ==
  IF p.symbol \in DOMAIN latest_closes /\ p.avg_cost # 0 /\ p.position # 0
  THEN (latest_closes[p.symbol] - p.avg_cost) * p.position
  ELSE 0

_append_portfolio_log(file, ts, positions, latest_closes) ==
  _ensure_log_csv(file, PortfolioHeader)
  \o [k \in 1..Len(positions) |->
        [kind |-> "row", timestamp |-> ts, symbol |-> positions[k].symbol,
         position |-> positions[k].position, avg_cost |-> positions[k].avg_cost,
         unrealized_pnl |-> UnrealizedPnl(positions[k], latest_closes)]]

\* ------------------------------------------------------------ inputs
\* cfg["risk"]: usual limits, a gross limit below the position limit, and a
\* negative gross limit
CfgUsual == [max_position_pct |-> WOne \div 2, max_gross_exposure |-> WOne]

CfgTight == [max_position_pct |-> 3 * (WOne \div 10), max_gross_exposure |-> WOne \div 2]

CfgNegative == [max_position_pct |-> WOne \div 2, max_gross_exposure |-> -(WOne \div 2)]

CfgSet == {CfgUsual, CfgTight, CfgNegative}

CfgLean == {CfgUsual, CfgNegative}

\* broker.account_summary(): NetLiquidation present and numeric, or not
Summary(v) == [kind |-> "value", v |-> v]

NoSummary == [kind |-> "missing", v |-> 0]

Summary1Set == {NoSummary, Summary(1025), Summary(1500), Summary(-1025)}

Summary1Lean == {Summary(1025)}

Summary7Set == {NoSummary, Summary(1004), Summary(1125)}

Summary7Lean == {Summary(1004), Summary(1125)}

\* broker.historical_bars(): raises, returns nothing, returns a frame without
\* a close column, or returns closes (some of them possibly NaN)
Bars(close, isna) == [kind |-> "ok", close |-> close, isna |-> isna]

BarsRaise == [kind |-> "raise", close |-> << >>, isna |-> << >>]

BarsNone == [kind |-> "none", close |-> << >>, isna |-> << >>]

BarsNoClose == [kind |-> "noclose", close |-> << >>, isna |-> << >>]

BarsSet ==
  { BarsRaise, BarsNone, BarsNoClose,
    Bars(<<10, 10>>, <<TRUE, TRUE>>),
    Bars(<<10>>, <<FALSE>>),
    Bars(<<20, 10, 10>>, <<FALSE, FALSE, FALSE>>),
    Bars(<<20, 10, 0, 25>>, <<FALSE, FALSE, TRUE, FALSE>>),
    Bars(<<20, 10, 0>>, <<FALSE, FALSE, FALSE>>),
    Bars(<<20, 10, 5>>, <<FALSE, FALSE, FALSE>>),
    Bars(<<10, 20, 10>>, <<FALSE, FALSE, FALSE>>) }

BarsLean == { BarsRaise, BarsNone, Bars(<<20, 10, 10>>, <<FALSE, FALSE, FALSE>>) }

\* positions held at the broker before the first iteration
Pos(q, c) == [position |-> q, avg_cost |-> c]

InitPositions ==
  { EmptyDict,
    [s \in {"SPY"} |-> Pos(100, 8)],
    [s \in {"SPY", "IWM"} |-> IF s = "SPY" THEN Pos(30, 8) ELSE Pos(5, 8)] }

\* what the broker does with one submitted order
ExecSet == {"place_raise", "wait_raise", "done_full", "done_none", "timeout_part"}

ExecLean == {"place_raise", "done_full", "timeout_part"}

\* average price of the shares the broker filled
FillPrices == {11}

\* the order a wait_for_fill call watches: trade.orderStatus.status,
\* trade.filled(), trade.orderStatus.avgFillPrice
Order(status, filled, avg) == [status |-> status, filled |-> filled, avg |-> avg]

\* no wait_for_fill call yet
NoWait ==
  [pc |-> "idle", now |-> 0, start |-> 0, timeout_seconds |-> 0,
   trade |-> Order("Submitted", 0, 0), result |-> None]

\* -------------------------------------------------------------- state
VARIABLES
  pc,                 \* position in run_live: idle, fetch, validate, size, exec, portfolio, snapshot
  iter,               \* number of run_live calls started (also the clock of datetime.now())
  outcome,            \* how the last run_live call ended: none, error, rejected, done
  dry_run, risk_cfg,  \* arguments of the current call
  brokerPos,          \* the account's positions at the broker
  calls,              \* broker calls made by the current call, in order
  portfolio_value, positions_raw, current_positions,
  symIdx, signals, latest_closes,
  fetch_failed,       \* symbols of this call whose price fetch failed in some way
  target_weights, risk, target_shares,
  trades_to_make, tradeIdx, fills,
  daily_pnl, running_pnl,
  TRADES_CSV, PORTFOLIO_CSV, SNAPSHOT_CSV,
  csv0,               \* number of lines of the three files when the call started
  backtest,           \* the last short_term_reversal_backtest call: arguments and results
  fill_wait,          \* a call of wait_for_fill: its clock, its trade, what it returned
  exec_log,           \* what became of each trade of the live loop of the current call
  last_call,          \* the account value step 1 of the current call read, and what
                      \* the call before it worked with and came to
  desk_run            \* a run of main(): its arguments, how it ended, the broker
                      \* connections it opened

vars ==
  << pc, iter, outcome, dry_run, risk_cfg, brokerPos, calls,
     portfolio_value, positions_raw, current_positions,
     symIdx, signals, latest_closes, fetch_failed, target_weights, risk, target_shares,
     trades_to_make, tradeIdx, fills, daily_pnl, running_pnl,
     TRADES_CSV, PORTFOLIO_CSV, SNAPSHOT_CSV, csv0, backtest, fill_wait,
     exec_log, last_call, desk_run >>

files == << TRADES_CSV, PORTFOLIO_CSV, SNAPSHOT_CSV >>

Call(op, sym, side, qty) ==
  [op |-> op, symbol |-> sym, side |-> side, qty |-> qty, use_cache |-> FALSE]

\* broker.historical_bars(symbol=sym, ..., use_cache=False)
BarsCall(sym, use_cache) ==
  [op |-> "historical_bars", symbol |-> sym, side |-> "", qty |-> 0,
   use_cache |-> use_cache]

\* IBKRBrokerReadOnly.positions(): one record per position of the account
positions(bp) ==
  LET held == InOrder(DOMAIN bp)
  IN  [k \in 1..Len(held) |->
        [symbol |-> held[k], position |-> bp[held[k]].position,
         avg_cost |-> bp[held[k]].avg_cost]]

\* (mutant) the positions read in step 1 are not used: every symbol counts as
\* not held
CurrentPositionsIgnored(raw) == EmptyDict

\* current_positions[p["symbol"]] = int(p["position"])
current_positions_of(raw) ==
  [s \in {raw[k].symbol : k \in 1..Len(raw)} |->
     LET k == CHOOSE j \in 1..Len(raw) :
                /\ raw[j].symbol = s
                /\ \A i \in (j + 1)..Len(raw) : raw[i].symbol # s
     IN  raw[k].position]

Init ==
  /\ pc = "idle" /\ iter = 0 /\ outcome = "none"
  /\ dry_run = TRUE
  /\ risk_cfg = [max_position_pct |-> 0, max_gross_exposure |-> 0]
  /\ brokerPos \in InitPositions
  /\ calls = << >>
  /\ portfolio_value = 0 /\ positions_raw = << >> /\ current_positions = EmptyDict
  /\ symIdx = 1 /\ signals = EmptyDict /\ latest_closes = EmptyDict
  /\ fetch_failed = {}
  /\ target_weights = EmptyDict /\ risk = None /\ target_shares = EmptyDict
  /\ trades_to_make = << >> /\ tradeIdx = 1 /\ fills = << >>
  /\ daily_pnl = None /\ running_pnl = None
  /\ TRADES_CSV = << >> /\ PORTFOLIO_CSV = << >> /\ SNAPSHOT_CSV = << >>
  /\ csv0 = <<0, 0, 0>>
  /\ backtest = None
  /\ fill_wait = NoWait
  /\ exec_log = << >>
  /\ last_call = [sized_with |-> 0, before |-> None]
  /\ desk_run = None

\* ------------------------------------------------------------- run_live
\* every order of the live loop was filled in full
AllFilled ==
  /\ Len(exec_log) = Len(trades_to_make)
  /\ \A k \in 1..Len(exec_log) :
       exec_log[k].filled /\ exec_log[k].filled_qty = trades_to_make[k].qty

\* kept when the next call starts: the account value it reads in step 1, and
\* of the call that just ended its inputs, its plan and how its orders fared
CallRecord(pv) ==
  [sized_with |-> pv,
   before |-> IF outcome # "done" THEN None
              ELSE Some([dry_run |-> dry_run, risk_cfg |-> risk_cfg,
                         portfolio_value |-> last_call.sized_with,
                         signals |-> signals, latest_closes |-> latest_closes,
                         target_shares |-> target_shares,
                         trades_to_make |-> trades_to_make,
                         all_filled |-> ~dry_run /\ AllFilled])]

\* step 1: account summary, positions, portfolio value, current positions
StartIteration(d, cfg, summary) ==
  /\ pc = "idle"
  /\ iter' = iter + 1 /\ outcome' = "running"
  /\ dry_run' = d /\ risk_cfg' = cfg
  /\ calls' = << Call("account_summary", "", "", 0), Call("positions", "", "", 0) >>
  /\ portfolio_value' = _parse_portfolio_value(summary)
  /\ positions_raw' = positions(brokerPos)
  /\ current_positions' = current_positions_of(positions(brokerPos))
  /\ symIdx' = 1 /\ signals' = EmptyDict /\ latest_closes' = EmptyDict
  /\ fetch_failed' = {}
  /\ target_weights' = EmptyDict /\ risk' = None /\ target_shares' = EmptyDict
  /\ trades_to_make' = << >> /\ tradeIdx' = 1 /\ fills' = << >>
  /\ daily_pnl' = None /\ running_pnl' = None
  /\ csv0' = << Len(TRADES_CSV), Len(PORTFOLIO_CSV), Len(SNAPSHOT_CSV) >>
  /\ pc' = "fetch"
  /\ exec_log' = << >>
  /\ last_call' = CallRecord(_parse_portfolio_value(summary))
  /\ UNCHANGED << backtest, fill_wait, desk_run, brokerPos, files >>

\* step 2, one symbol of the loop: fetch bars, latest signal and close
FetchBars(bars) ==
  /\ pc = "fetch" /\ symIdx <= Len(Universe)
  /\ LET sym == Universe[symIdx]
         prices == DropNa(bars)
     IN  /\ calls' = Append(calls, BarsCall(sym, FALSE))
         /\ fetch_failed' = IF bars.kind # "ok" \/ prices = << >>
                            THEN fetch_failed \cup {sym} ELSE fetch_failed
         /\ CASE bars.kind = "raise" ->
                   \* the exception leaves run_live
                   /\ pc' = "idle" /\ outcome' = "error"
                   /\ UNCHANGED << symIdx, signals, latest_closes >>
              [] bars.kind \in {"none", "noclose"} ->
                   /\ signals' = Put(signals, sym, 0)
                   /\ symIdx' = symIdx + 1
                   /\ UNCHANGED << pc, outcome, latest_closes >>
              [] bars.kind = "ok" /\ prices = << >> ->
                   \* prices.iloc[-1] raises IndexError
                   /\ signals' = Put(signals, sym, latest_reversal_signal(prices))
                   /\ pc' = "idle" /\ outcome' = "error"
                   /\ UNCHANGED << symIdx, latest_closes >>
              [] bars.kind = "ok" /\ prices # << >> ->
                   /\ signals' = Put(signals, sym, latest_reversal_signal(prices))
                   /\ latest_closes' = Put(latest_closes, sym, prices[Len(prices)])
                   /\ symIdx' = symIdx + 1
                   /\ UNCHANGED << pc, outcome >>
  /\ UNCHANGED << backtest, fill_wait, desk_run, last_call, exec_log, iter, dry_run,
                  risk_cfg, brokerPos, portfolio_value, positions_raw, current_positions,
                  target_weights, risk, target_shares, trades_to_make, tradeIdx, fills,
                  daily_pnl, running_pnl, files, csv0 >>

\* "Ensure all symbols have closes": a symbol without a close gets 0.0
FillCloses(symbols, closes) ==
  [s \in DOMAIN closes \cup Range(symbols) |-> Get(closes, s, 0)]

\* (mutant) the result of the validation is ignored
RejectedNever(r) == FALSE

\* "if not ok: return": the call ends before step 4
Rejected(r) == ~r.ok

\* steps 3 and 4: weights, validation, target shares, trade list
Plan ==
  /\ pc = "fetch" /\ symIdx > Len(Universe)
  /\ LET closes == FillCloses(Universe, latest_closes)
         tw == _signals_to_weights(signals, risk_cfg.max_position_pct,
                                   risk_cfg.max_gross_exposure)
         r == validate_targets(tw, Universe, risk_cfg.max_position_pct,
                               risk_cfg.max_gross_exposure)
         ts == target_shares_of(Universe, portfolio_value, tw, closes)
     IN  /\ latest_closes' = closes
         /\ target_weights' = tw
         /\ risk' = Some(r)
         /\ IF Rejected(r)
            THEN /\ pc' = "idle" /\ outcome' = "rejected"
                 /\ UNCHANGED << target_shares, trades_to_make >>
            ELSE /\ target_shares' = ts
                 /\ trades_to_make' = trades_to_make_of(Universe, current_positions, ts)
                 /\ pc' = "exec"
                 /\ UNCHANGED outcome
  /\ UNCHANGED << backtest, fill_wait, desk_run, last_call, exec_log, iter, dry_run,
                  risk_cfg, brokerPos, calls, portfolio_value, positions_raw,
                  current_positions, symIdx, fetch_failed, signals, tradeIdx, fills,
                  daily_pnl, running_pnl, files, csv0 >>

\* step 5, dry run, one trade of the loop: journal it, no broker call
DryRunTrade ==
  /\ pc = "exec" /\ dry_run /\ tradeIdx <= Len(trades_to_make)
  /\ LET t == trades_to_make[tradeIdx]
     IN  TRADES_CSV' = _append_trade_log(TRADES_CSV, iter, t.symbol, t.side, t.qty, 0,
                                         Get(signals, t.symbol, 0),
                                         Get(latest_closes, t.symbol, 0))
  /\ tradeIdx' = tradeIdx + 1
  /\ UNCHANGED << backtest, fill_wait, desk_run, last_call, exec_log, pc, iter, outcome,
                  dry_run, risk_cfg, brokerPos, calls, portfolio_value, positions_raw,
                  current_positions, symIdx, fetch_failed, signals, latest_closes,
                  target_weights, risk, target_shares, trades_to_make, fills, daily_pnl,
                  running_pnl, PORTFOLIO_CSV, SNAPSHOT_CSV, csv0 >>

\* the account after the broker filled q shares of an order
ApplyFill(bp, sym, side, q, px) ==
  LET old == IF sym \in DOMAIN bp THEN bp[sym] ELSE Pos(0, px)
      new == IF side = "BUY" THEN old.position + q ELSE old.position - q
  IN  IF q = 0 THEN bp
      ELSE IF new = 0 THEN [s \in DOMAIN bp \ {sym} |-> bp[s]]
      ELSE Put(bp, sym, Pos(new, old.avg_cost))

\* shares the broker fills of an order of qty shares
FilledQty(x, qty) ==
  CASE x = "done_full" -> qty
    [] x = "timeout_part" -> qty \div 2
    [] OTHER -> 0

\* what one pass of the live loop came to: an exception, or the values
\* returned by wait_for_fill
ExecOutcome(x, filled_qty, px) ==
  [raised     |-> x \in {"place_raise", "wait_raise"},
   filled     |-> x \in {"done_full", "done_none"},
   avg_price  |-> IF filled_qty > 0 /\ x # "wait_raise" THEN px ELSE 0,
   filled_qty |-> IF x = "wait_raise" THEN 0 ELSE filled_qty]

\* (mutant) an exception of one trade ends the loop
AfterTradeAbort(x, idx, n) ==
  IF x \in {"place_raise", "wait_raise"} THEN n + 1 ELSE idx + 1

\* the for loop over trades_to_make: an exception of one trade is caught and
\* the loop goes on with the next trade
AfterTrade(x, idx, n) == idx + 1

\* step 5, live, one trade of the loop: place the order, wait, journal
LiveTrade(x, px) ==
  /\ pc = "exec" /\ ~dry_run /\ tradeIdx <= Len(trades_to_make)
  /\ LET t == trades_to_make[tradeIdx]
         ref_price == Get(latest_closes, t.symbol, 0)
         place == Call("place_order", t.symbol, t.side, t.qty)
         wait == Call("wait_for_fill", t.symbol, t.side, t.qty)
         filled_qty == FilledQty(x, t.qty)
         avg_price == IF filled_qty > 0 THEN px ELSE 0
         filled == x \in {"done_full", "done_none"}
     IN  IF x = "place_raise"
         THEN /\ calls' = Append(calls, place)
              /\ UNCHANGED << brokerPos, fills, TRADES_CSV >>
         ELSE /\ calls' = calls \o << place, wait >>
              /\ brokerPos' = ApplyFill(brokerPos, t.symbol, t.side, filled_qty, px)
              /\ IF x = "wait_raise"
                 THEN UNCHANGED << fills, TRADES_CSV >>
                 ELSE /\ fills' = IF filled
                                  THEN Append(fills, [symbol |-> t.symbol, side |-> t.side,
                                                      qty |-> filled_qty, price |-> avg_price])
                                  ELSE fills
                      /\ TRADES_CSV' = _append_trade_log(TRADES_CSV, iter, t.symbol, t.side,
                                                         t.qty, avg_price,
                                                         Get(signals, t.symbol, 0), ref_price)
  /\ exec_log' = Append(exec_log, ExecOutcome(x, FilledQty(x, trades_to_make[tradeIdx].qty), px))
  /\ tradeIdx' = AfterTrade(x, tradeIdx, Len(trades_to_make))
  /\ UNCHANGED << backtest, fill_wait, desk_run, last_call, pc, iter, outcome, dry_run,
                  risk_cfg, portfolio_value, positions_raw, current_positions, symIdx,
                  fetch_failed, signals, latest_closes, target_weights, risk, target_shares,
                  trades_to_make, daily_pnl, running_pnl, PORTFOLIO_CSV, SNAPSHOT_CSV,
                  csv0 >>

\* step 6: refresh positions after live orders, append the portfolio log
PortfolioLog ==
  /\ pc = "exec" /\ tradeIdx > Len(trades_to_make)
  /\ LET raw == IF ~dry_run THEN positions(brokerPos) ELSE positions_raw
     IN  /\ positions_raw' = raw
         /\ PORTFOLIO_CSV' = _append_portfolio_log(PORTFOLIO_CSV, iter, raw, latest_closes)
  /\ calls' = IF ~dry_run THEN Append(calls, Call("positions", "", "", 0)) ELSE calls
  /\ pc' = "snapshot"
  /\ UNCHANGED << backtest, fill_wait, desk_run, last_call, exec_log, iter, outcome,
                  dry_run, risk_cfg, brokerPos, portfolio_value, current_positions, symIdx,
                  fetch_failed, signals, latest_closes, target_weights, risk, target_shares,
                  trades_to_make, tradeIdx, fills, daily_pnl, running_pnl, TRADES_CSV,
                  SNAPSHOT_CSV, csv0 >>

\* step 7: refetch the account value, append the snapshot log
SnapshotLog(summary) ==
  /\ pc = "snapshot"
  /\ LET pv == _parse_portfolio_value(summary)
         pnl == SnapshotPnl(SNAPSHOT_CSV, pv)
     IN  /\ portfolio_value' = pv
         /\ SNAPSHOT_CSV' = _append_snapshot_log(SNAPSHOT_CSV, iter, pv)
         /\ daily_pnl' = pnl.daily_pnl
         /\ running_pnl' = pnl.running_pnl
  /\ calls' = Append(calls, Call("account_summary", "", "", 0))
  /\ pc' = "idle" /\ outcome' = "done"
  /\ UNCHANGED << backtest, fill_wait, desk_run, last_call, exec_log, iter, dry_run,
                  risk_cfg, brokerPos, positions_raw, current_positions, symIdx,
                  fetch_failed, signals, latest_closes, target_weights, risk, target_shares,
                  trades_to_make, tradeIdx, fills, TRADES_CSV, PORTFOLIO_CSV, csv0 >>

\* run_live called up to MaxIter times, one call after the other
Next ==
  \/ \E d \in BOOLEAN, cfg \in CfgLean, summary \in Summary1Lean :
       iter < MaxIter /\ StartIteration(d, cfg, summary)
  \/ \E bars \in BarsLean : FetchBars(bars)
  \/ Plan
  \/ DryRunTrade
  \/ \E x \in ExecLean, px \in FillPrices : LiveTrade(x, px)
  \/ PortfolioLog
  \/ \E summary \in Summary7Lean : SnapshotLog(summary)

Spec == Init /\ [][Next]_vars

\* one call of run_live, over the wider input sets
NextCall ==
  \/ \E d \in BOOLEAN, cfg \in CfgSet, summary \in Summary1Set :
       iter = 0 /\ StartIteration(d, cfg, summary)
  \/ \E bars \in BarsSet : FetchBars(bars)
  \/ Plan
  \/ DryRunTrade
  \/ \E x \in ExecSet, px \in FillPrices : LiveTrade(x, px)
  \/ PortfolioLog
  \/ \E summary \in Summary7Set : SnapshotLog(summary)

SpecCall == Init /\ [][NextCall]_vars

\* ------------------------------------------- calls of single functions
\* amounts handed to _append_snapshot_log (mills)
SnapshotValues == {0, 1000, 1004, 1125, 2000}

\* _append_snapshot_log(v), called again and again on the snapshot log
AppendSnapshot(v) ==
  /\ Len(SNAPSHOT_CSV) < MaxSnapshots + 1
  /\ portfolio_value' = v
  /\ SNAPSHOT_CSV' = _append_snapshot_log(SNAPSHOT_CSV, Len(SNAPSHOT_CSV), v)
  /\ daily_pnl' = SnapshotPnl(SNAPSHOT_CSV, v).daily_pnl
  /\ running_pnl' = SnapshotPnl(SNAPSHOT_CSV, v).running_pnl
  /\ UNCHANGED << backtest, fill_wait, desk_run, last_call, exec_log, pc, iter, outcome,
                  dry_run, risk_cfg, brokerPos, calls, positions_raw, current_positions,
                  symIdx, fetch_failed, signals, latest_closes, target_weights, risk,
                  target_shares, trades_to_make, tradeIdx, fills, TRADES_CSV, PORTFOLIO_CSV,
                  csv0 >>

NextSnapshot == \E v \in SnapshotValues : AppendSnapshot(v)

SpecSnapshot == Init /\ [][NextSnapshot]_vars

\* target weights handed to validate_targets: over the universe, or with a
\* ticker outside it
RiskWeights ==
  { -(WOne \div 10), 0, 2 * (WOne \div 10), WOne \div 2, WOne \div 2 + 1,
    WOne \div 2 + 2, 6 * (WOne \div 10) }

RiskTargets ==
  [Range(Universe3) -> RiskWeights] \cup [{"SPY", "QQQ", "NOT_A_TICKER"} -> RiskWeights]

RiskCfgs ==
  { [max_position_pct |-> 3 * (WOne \div 10), max_gross_exposure |-> WOne],
    [max_position_pct |-> 6 * (WOne \div 10), max_gross_exposure |-> WOne] }

\* validate_targets(targets, symbols, max_position_pct, max_gross_exposure)
CallValidateTargets(targets, cfg) ==
  /\ risk = None
  /\ target_weights' = targets
  /\ risk_cfg' = cfg
  /\ risk' = Some(validate_targets(targets, Universe3, cfg.max_position_pct,
                                   cfg.max_gross_exposure))
  /\ UNCHANGED << backtest, fill_wait, desk_run, last_call, exec_log, pc, iter, outcome,
                  dry_run, brokerPos, calls, portfolio_value, positions_raw,
                  current_positions, symIdx, fetch_failed, signals, latest_closes,
                  target_shares, trades_to_make, tradeIdx, fills, daily_pnl, running_pnl,
                  files, csv0 >>

NextRisk == \E targets \in RiskTargets, cfg \in RiskCfgs : CallValidateTargets(targets, cfg)

SpecRisk == Init /\ [][NextRisk]_vars

\* signal maps and limits handed to _signals_to_weights
SignalMaps == [Range(Universe3) -> {-1, 0, 1}]

WeightLimits == {-(WOne \div 2), 0, 3 * (WOne \div 10), WOne \div 2, WOne}

WeightCfgs == [max_position_pct : WeightLimits, max_gross_exposure : WeightLimits]

\* _signals_to_weights(signals, max_position_pct, max_gross_exposure)
CallSignalsToWeights(sig, cfg) ==
  /\ signals = EmptyDict
  /\ signals' = sig
  /\ risk_cfg' = cfg
  /\ target_weights' = _signals_to_weights(sig, cfg.max_position_pct,
                                           cfg.max_gross_exposure)
  /\ UNCHANGED << backtest, fill_wait, desk_run, last_call, exec_log, pc, iter, outcome,
                  dry_run, brokerPos, calls, portfolio_value, positions_raw,
                  current_positions, symIdx, fetch_failed, latest_closes, risk,
                  target_shares, trades_to_make, tradeIdx, fills, daily_pnl, running_pnl,
                  files, csv0 >>

NextWeights == \E sig \in SignalMaps, cfg \in WeightCfgs : CallSignalsToWeights(sig, cfg)

SpecWeights == Init /\ [][NextWeights]_vars

\* closes of a price series handed to the backtest (cents)
PriceValues == {100, 101, 102, 103}

PriceSeries == UNION {[1..n -> PriceValues] : n \in 0..MaxPrices}

\* a series with no NaN (nanAt = 0) or with a NaN in row nanAt
WithNaN(close, nanAt) == Bars(close, [k \in 1..Len(close) |-> k = nanAt])

CostBpsSet == {0, 5}

\* short_term_reversal_backtest(prices, cost_bps) and
\* latest_reversal_signal(prices) on the same series
CallBacktest(prices, cost_bps) ==
  /\ backtest' = Some([prices   |-> prices,
                       cost_bps |-> cost_bps,
                       df       |-> short_term_reversal_backtest(prices, cost_bps),
                       latest   |-> latest_reversal_signal(DropNa(prices))])
  /\ UNCHANGED << pc, iter, outcome, dry_run, risk_cfg, brokerPos, calls, portfolio_value,
                  positions_raw, current_positions, symIdx, fetch_failed, signals,
                  latest_closes, target_weights, risk, target_shares, trades_to_make,
                  tradeIdx, fills, daily_pnl, running_pnl, files, csv0, fill_wait, exec_log,
                  last_call, desk_run >>

\* one call on each series
NextBacktest ==
  /\ backtest = None
  /\ \E close \in PriceSeries, cost_bps \in CostBpsSet :
       \E nanAt \in {0, 2} :
         nanAt <= Len(close) /\ CallBacktest(WithNaN(close, nanAt), cost_bps)

SpecBacktest == Init /\ [][NextBacktest]_vars

\* trade.isDone(): the order reached a terminal state
IsDone(trade) == trade.status \in {"Filled", "Cancelled"}

\* the orders a wait can see: nothing, half or all of 4 shares filled at 11
Orders ==
  { Order("Submitted", 0, 0), Order("Submitted", 2, 11), Order("Filled", 4, 11),
    Order("Cancelled", 0, 0), Order("Cancelled", 2, 11) }

\* what an order can have become while the caller slept
Progress(trade) ==
  {o \in Orders : o = trade \/ (~IsDone(trade) /\ o.filled >= trade.filled)}

\* timeout_seconds, in half seconds
TimeoutSet == {-1, 0, 1, 3, 4}

\* time.time() when wait_for_fill is called, in half seconds
ClockSet == {0, 7}

\* time that ib.sleep(0.5) takes, in half seconds
SleepSet == {1, 2}

\* wait_for_fill(trade, timeout_seconds): start = time.time()
CallWaitForFill(trade, timeout_seconds, clock) ==
  /\ fill_wait.pc = "idle"
  /\ fill_wait' = [pc |-> "loop", now |-> clock, start |-> clock,
                   timeout_seconds |-> timeout_seconds, trade |-> trade, result |-> None]
  /\ UNCHANGED << pc, iter, outcome, dry_run, risk_cfg, brokerPos, calls, portfolio_value,
                  positions_raw, current_positions, symIdx, fetch_failed, signals,
                  latest_closes, target_weights, risk, target_shares, trades_to_make,
                  tradeIdx, fills, daily_pnl, running_pnl, files, csv0, backtest, exec_log,
                  last_call, desk_run >>

\* (mutant) the loop condition never fails
ExpiredNever(w) == FALSE

\* the loop condition time.time() - start < timeout_seconds fails
Expired(w) == ~(w.now - w.start < w.timeout_seconds)

\* what wait_for_fill returns: (filled, avg_price, filled_qty)
WaitResult(filled, trade) ==
  Some([filled |-> filled, avg_price |-> trade.avg, filled_qty |-> trade.filled])

\* one test of the loop condition and what follows it: return False after the
\* timeout, return True if the order is done, else sleep while the order goes on
WaitLoop(slept, trade_after) ==
  /\ fill_wait.pc = "loop"
  /\ fill_wait' =
       IF Expired(fill_wait)
       THEN [fill_wait EXCEPT !.pc = "returned",
                              !.result = WaitResult(FALSE, fill_wait.trade)]
       ELSE IF IsDone(fill_wait.trade)
       THEN [fill_wait EXCEPT !.pc = "returned",
                              !.result = WaitResult(TRUE, fill_wait.trade)]
       ELSE [fill_wait EXCEPT !.now = @ + slept, !.trade = trade_after]
  /\ UNCHANGED << pc, iter, outcome, dry_run, risk_cfg, brokerPos, calls, portfolio_value,
                  positions_raw, current_positions, symIdx, fetch_failed, signals,
                  latest_closes, target_weights, risk, target_shares, trades_to_make,
                  tradeIdx, fills, daily_pnl, running_pnl, files, csv0, backtest, exec_log,
                  last_call, desk_run >>

\* the loop of a wait_for_fill call under way
WaitStep ==
  \E slept \in SleepSet : \E trade_after \in Progress(fill_wait.trade) :
    WaitLoop(slept, trade_after)

NextWait ==
  \/ \E trade \in Orders, timeout_seconds \in TimeoutSet, clock \in ClockSet :
       CallWaitForFill(trade, timeout_seconds, clock)
  \/ WaitStep

\* either one call of wait_for_fill, which goes on until it returns, or one
\* call of run_live in which the broker's waits are taken by their results
NextFill ==
  \/ iter = 0 /\ NextWait
  \/ fill_wait.pc = "idle" /\ NextCall

SpecFill == Init /\ [][NextFill]_vars /\ WF_vars(WaitStep)

\* ----------------------------------------------------------------- main
\* src/trade.py enforce_ibkr_safety: TRUE when it returns, FALSE when it
\* raises SystemExit
enforce_ibkr_safety(mode, ibkr_port, understand_live) ==
  /\ ibkr_port = TWS_LIVE_PORT => mode = "live" /\ understand_live
  /\ ~(mode = "live" /\ ibkr_port = TWS_PAPER_PORT)

\* ibkr_cfg.get("port") or args.ibkr_port: a missing or zero port in the
\* configuration falls back to the command line
LivePort(args, cfg_port) ==
  IF cfg_port = None \/ cfg_port = {0} THEN args.ibkr_port
  ELSE CHOOSE q \in cfg_port : TRUE

\* a broker connection: IBKRBroker places orders, IBKRBrokerReadOnly does not
Connection(broker, port) == [broker |-> broker, port |-> port]

\* src/trade.py main: how the run ends and the connections it has opened
main(args, cfg_port) ==
  IF args.mode = "live" /\ ~args.i_understand_live
  THEN [exit |-> "refused", connections |-> << >>]
  ELSE IF args.ibkr /\ ~enforce_ibkr_safety(args.mode, args.ibkr_port, args.i_understand_live)
  THEN [exit |-> "refused", connections |-> << >>]
  ELSE IF args.test_risk
  THEN [exit |-> "smoke", connections |-> << >>]
  ELSE IF args.run = "live"
  THEN IF ~args.ibkr
       THEN [exit |-> "usage", connections |-> << >>]
       ELSE [exit |-> "live",
             connections |-> << Connection("IBKRBroker", LivePort(args, cfg_port)) >>]
  ELSE IF args.ibkr
  THEN [exit |-> args.run,
        connections |-> << Connection("IBKRBrokerReadOnly", args.ibkr_port) >>]
  ELSE [exit |-> args.run, connections |-> << >>]

\* command lines: --mode, --i-understand-live, --ibkr, --ibkr-port, --run,
\* --test-risk
ArgsSet ==
  [mode : {"paper", "live"}, i_understand_live : BOOLEAN, ibkr : BOOLEAN,
   ibkr_port : {TWS_PAPER_PORT, TWS_LIVE_PORT, 4002},
   run : {"trade", "backtest", "live"}, test_risk : BOOLEAN]

\* cfg["ibkr"]["port"]: absent, 0, or a port
CfgPortSet == {None, {0}, {TWS_PAPER_PORT}, {TWS_LIVE_PORT}}

\* one run of main() with a command line and a configuration
RunMain(args, cfg_port) ==
  /\ desk_run' = Some([args |-> args, cfg_port |-> cfg_port,
                       result |-> main(args, cfg_port)])
  /\ UNCHANGED << pc, iter, outcome, dry_run, risk_cfg, brokerPos, calls, portfolio_value,
                  positions_raw, current_positions, symIdx, fetch_failed, signals,
                  latest_closes, target_weights, risk, target_shares, trades_to_make,
                  tradeIdx, fills, daily_pnl, running_pnl, files, csv0, backtest, fill_wait,
                  exec_log, last_call >>

NextMain ==
  /\ desk_run = None
  /\ \E args \in ArgsSet, cfg_port \in CfgPortSet : RunMain(args, cfg_port)

SpecMain == Init /\ [][NextMain]_vars

\* ============================================================== claims
\* rows a file gained since the current call of run_live started
NewRows(file, n0) ==
  SelectSeq(SubSeq(file, n0 + 1, Len(file)), LAMBDA r : r.kind = "row")

\* the orders the current call submitted, in order
PlaceCalls == SelectSeq(calls, LAMBDA c : c.op = "place_order")

WaitCalls == SelectSeq(calls, LAMBDA c : c.op = "wait_for_fill")

\* the current call passed validation (steps 4 to 7 are under way or done)
Validated == \E r \in risk : r.ok

\* C1: unless the validation of the current call succeeded, the call has
\* submitted no order, waited for no fill and appended nothing to the trade
\* log, the portfolio log or the snapshot log; a failed validation ends the call.
C1_NoExecutionUnlessValidated ==
  /\ ~Validated =>
       /\ PlaceCalls = << >> /\ WaitCalls = << >>
       /\ Len(TRADES_CSV) = csv0[1]
       /\ Len(PORTFOLIO_CSV) = csv0[2]
       /\ Len(SNAPSHOT_CSV) = csv0[3]
  /\ (\E r \in risk : ~r.ok) => pc = "idle" /\ outcome = "rejected"

\* C1 witness: a second call whose validation failed while shares were held
\* and the journals already had rows
C1_Witness ==
  /\ outcome = "rejected" /\ iter = 2 /\ \E r \in risk : ~r.ok
  /\ current_positions # EmptyDict
  /\ Len(TRADES_CSV) > 1 /\ Len(SNAPSHOT_CSV) > 1

\* the trade-log row of a dry run for the planned trade t
DryRow(t) ==
  [kind |-> "row", timestamp |-> iter, symbol |-> t.symbol, side |-> t.side,
   quantity |-> t.qty, fill_price |-> 0,
   reference_price |-> latest_closes[t.symbol],
   signal_value |-> signals[t.symbol]]

\* C2: in a dry run no order is placed or waited for, and the rows appended to
\* the trade log are, one for one and in order, the planned trades processed so
\* far, with fill_price 0 and the symbol's latest close as reference_price; when
\* the call is done there are as many new rows as planned trades.
C2_DryRunJournalsEveryTrade ==
  (dry_run /\ Validated) =>
    /\ PlaceCalls = << >> /\ WaitCalls = << >>
    /\ NewRows(TRADES_CSV, csv0[1])
         = [k \in 1..(tradeIdx - 1) |-> DryRow(trades_to_make[k])]
    /\ pc \in {"snapshot", "idle"} =>
         Len(NewRows(TRADES_CSV, csv0[1])) = Len(trades_to_make)

\* C2 witness: a finished dry run that planned two trades at a positive close
C2_Witness ==
  /\ dry_run /\ outcome = "done" /\ Len(trades_to_make) = 2
  /\ \A k \in 1..2 : latest_closes[trades_to_make[k].symbol] > 0
  /\ Len(NewRows(TRADES_CSV, csv0[1])) = 2

\* C3: in live mode the orders submitted are, one for one and in order, the
\* planned trades processed so far, whatever raised before; a call that passed
\* validation never ends with an error, and when it is done every planned trade
\* was submitted once and the portfolio log and the snapshot log got their rows.
C3_LiveSubmitsEveryTrade ==
  /\ (~dry_run /\ Validated) =>
       /\ PlaceCalls = [k \in 1..(tradeIdx - 1) |->
                          Call("place_order", trades_to_make[k].symbol,
                               trades_to_make[k].side, trades_to_make[k].qty)]
       /\ outcome # "error"
       /\ pc \in {"snapshot", "idle"} =>
            /\ Len(PlaceCalls) = Len(trades_to_make)
            /\ Len(PORTFOLIO_CSV) > csv0[2]
       /\ outcome = "done" => Len(NewRows(SNAPSHOT_CSV, csv0[3])) = 1
  /\ outcome = "error" => risk = None

\* C3 witness: a finished live call with two planned trades of which the first
\* raised (it left no row in the trade log) and the second was still submitted
C3_Witness ==
  /\ ~dry_run /\ outcome = "done" /\ Len(trades_to_make) = 2
  /\ Len(PlaceCalls) = 2
  /\ Len(NewRows(TRADES_CSV, csv0[1])) = 1
  /\ NewRows(TRADES_CSV, csv0[1])[1].symbol = trades_to_make[2].symbol

\* C4: a price fetch that fails in any way never ends the call: the call does
\* not end with an error, and at step 3 every symbol whose fetch failed has
\* signal 0 and latest close 0.
C4_FetchFailureDegrades ==
  /\ outcome # "error"
  /\ risk # None =>
       \A s \in fetch_failed : signals[s] = 0 /\ latest_closes[s] = 0

\* the data rows of the snapshot log
SnapshotRows == SelectSeq(SNAPSHOT_CSV, LAMBDA r : r.kind = "row")

\* what the last _append_snapshot_log returned and wrote, against the rows
SnapshotReturnsMatchRows ==
  LET rows == SnapshotRows
      n == Len(rows)
  IN  /\ n = 0 => daily_pnl = None /\ running_pnl = None
      /\ n >= 1 =>
           /\ rows[1].daily_pnl = None /\ rows[1].running_pnl = None
           /\ rows[n].portfolio_value = Fmt2(portfolio_value)
      /\ n = 1 => daily_pnl = None /\ running_pnl = None
      /\ n >= 2 =>
           /\ daily_pnl = {portfolio_value - 10 * rows[n - 1].portfolio_value}
           /\ running_pnl = {portfolio_value - 10 * rows[1].portfolio_value}
      /\ n = 2 => daily_pnl = running_pnl

\* the first row of the snapshot log, once written, stays as it is
BaselineKept ==
  Len(SnapshotRows) >= 1 =>
    /\ Len(SelectSeq(SNAPSHOT_CSV', LAMBDA r : r.kind = "row")) >= 1
    /\ SelectSeq(SNAPSHOT_CSV', LAMBDA r : r.kind = "row")[1] = SnapshotRows[1]

\* C5: on an initially absent snapshot log the first _append_snapshot_log
\* returns (None, None) and writes blank P&L; every later call with value v
\* returns daily_pnl = v - the value recorded in the previous row and
\* running_pnl = v - the value recorded in the first row; the first row never
\* changes; with exactly two rows daily_pnl = running_pnl.
C5_SnapshotBaseline == [](SnapshotReturnsMatchRows) /\ [][BaselineKept]_vars

\* C5 witness: a third call with v = 1.004 after rows recorded as 1.00 and
\* 1.12: daily is measured from 1.12 and running from 1.00
C5_Witness ==
  /\ Len(SnapshotRows) = 3
  /\ SnapshotRows[1].portfolio_value = 100 /\ SnapshotRows[2].portfolio_value = 112
  /\ portfolio_value = 1004
  /\ daily_pnl = {-116} /\ running_pnl = {4}

\* a journal file: absent, or its header followed by data rows only
WellFormed(file, header) ==
  file # << >> =>
    /\ file[1] = header
    /\ \A k \in 2..Len(file) : file[k].kind = "row"

JournalsWellFormed ==
  /\ WellFormed(TRADES_CSV, TradeHeader)
  /\ WellFormed(PORTFOLIO_CSV, PortfolioHeader)
  /\ WellFormed(SNAPSHOT_CSV, SnapshotHeader)

JournalsOnlyGrow ==
  /\ IsPrefix(TRADES_CSV, TRADES_CSV')
  /\ IsPrefix(PORTFOLIO_CSV, PORTFOLIO_CSV')
  /\ IsPrefix(SNAPSHOT_CSV, SNAPSHOT_CSV')

\* C6: over any sequence of run_live calls every step leaves each of the three
\* journals a prefix of what it becomes (no line is changed, moved or removed),
\* and each file holds its header once, as its first line.
C6_JournalsAppendOnly == [](JournalsWellFormed) /\ [][JournalsOnlyGrow]_vars

\* C6 witness: a second call appends to three journals that the first call
\* created and filled
C6_Witness ==
  /\ iter = 2 /\ outcome = "done"
  /\ csv0[1] > 1 /\ csv0[2] > 1 /\ csv0[3] > 1
  /\ Len(TRADES_CSV) > csv0[1] /\ Len(PORTFOLIO_CSV) > csv0[2]
  /\ Len(SNAPSHOT_CSV) > csv0[3]

\* the errors of kind k in a result of validate_targets
ErrorsOf(r, k) == {r.errors[i] : i \in {j \in 1..Len(r.errors) : r.errors[j].kind = k}}

\* the four checks of validate_targets, stated on its inputs
UnknownOf(targets) == {s \in DOMAIN targets : s \notin Range(Universe3)}

ShortOf(targets) == {s \in DOMAIN targets : targets[s] < 0}

TooLargeOf(targets, cfg) == {s \in DOMAIN targets : targets[s] > cfg.max_position_pct}

GrossExceeded(targets, cfg) ==
  SumOver(targets, DOMAIN targets) > cfg.max_gross_exposure + Tol

\* C7: validate_targets reports every violated check and nothing else: ok iff
\* the error list is empty iff no ticker is unknown, no weight is negative, no
\* weight exceeds max_position_pct and the sum of the weights exceeds
\* max_gross_exposure by no more than the tolerance; there is one unknown-ticker
\* error iff a ticker is unknown, one shorting error per negative weight, one
\* position-size error per weight above the limit, one gross error iff the sum
\* is too large.
C7_AllChecksReported ==
  \A r \in risk :
    /\ r.ok <=> r.errors = << >>
    /\ r.ok <=> /\ UnknownOf(target_weights) = {}
                /\ ShortOf(target_weights) = {}
                /\ TooLargeOf(target_weights, risk_cfg) = {}
                /\ ~GrossExceeded(target_weights, risk_cfg)
    /\ ErrorsOf(r, "unknown") =
         IF UnknownOf(target_weights) = {} THEN {}
         ELSE {[kind |-> "unknown", syms |-> UnknownOf(target_weights)]}
    /\ ErrorsOf(r, "short") =
         {[kind |-> "short", syms |-> {s}] : s \in ShortOf(target_weights)}
    /\ ErrorsOf(r, "size") =
         {[kind |-> "size", syms |-> {s}] : s \in TooLargeOf(target_weights, risk_cfg)}
    /\ ErrorsOf(r, "gross") =
         IF GrossExceeded(target_weights, risk_cfg)
         THEN {[kind |-> "gross", syms |-> {}]} ELSE {}
    /\ Len(r.errors) = Cardinality(Range(r.errors))

\* C7 witness: SPY 0.6, QQQ -0.1, IWM 0.5 with max_position_pct 0.3: a shorting
\* error for QQQ and position-size errors for SPY and IWM
C7_Witness ==
  /\ DOMAIN target_weights = {"SPY", "QQQ", "IWM"}
  /\ target_weights["SPY"] = 6 * (WOne \div 10)
  /\ target_weights["QQQ"] = -(WOne \div 10)
  /\ target_weights["IWM"] = WOne \div 2
  /\ risk_cfg.max_position_pct = 3 * (WOne \div 10)
  /\ \E r \in risk :
       /\ ~r.ok
       /\ ErrorsOf(r, "short") = {[kind |-> "short", syms |-> {"QQQ"}]}
       /\ ErrorsOf(r, "size") = {[kind |-> "size", syms |-> {"SPY"}],
                                 [kind |-> "size", syms |-> {"IWM"}]}

\* the trades of the planned list that are for symbol s
TradesOf(s) == SelectSeq(trades_to_make, LAMBDA t : t.symbol = s)

\* C8: the planned trade list holds, for each universe symbol with
\* delta = target shares - current position (0 when not held), exactly one BUY
\* of delta if delta > 0, exactly one SELL of -delta if delta < 0 and nothing if
\* delta = 0; every quantity is positive and no trade is for a symbol outside
\* the universe.
C8_TradeDiff ==
  Validated =>
    /\ \A s \in Range(Universe) :
         LET delta == target_shares[s] - Get(current_positions, s, 0)
         IN  TradesOf(s) =
               IF delta > 0 THEN << [symbol |-> s, side |-> "BUY", qty |-> delta] >>
               ELSE IF delta < 0 THEN << [symbol |-> s, side |-> "SELL", qty |-> -delta] >>
               ELSE << >>
    /\ \A k \in 1..Len(trades_to_make) :
         /\ trades_to_make[k].symbol \in Range(Universe)
         /\ trades_to_make[k].qty > 0

\* C8 witness: positions {SPY: 100}, target shares {SPY: 150, QQQ: 0} give
\* exactly [(SPY, BUY, 50)]
C8_Witness ==
  /\ current_positions = [s \in {"SPY"} |-> 100]
  /\ target_shares = [s \in {"SPY", "QQQ"} |-> IF s = "SPY" THEN 150 ELSE 0]
  /\ trades_to_make = << [symbol |-> "SPY", side |-> "BUY", qty |-> 50] >>

\* the symbols whose signal is exactly 1
Longs == {s \in DOMAIN signals : signals[s] = 1}

\* what _signals_to_weights returned, against its inputs
WeightsAsComputed ==
  /\ DOMAIN target_weights = DOMAIN signals
  /\ \A s \in DOMAIN signals \ Longs : target_weights[s] = 0
  /\ \A s \in Longs :
       target_weights[s] = Min2(RoundHalfEven(risk_cfg.max_gross_exposure, Cardinality(Longs)),
                                risk_cfg.max_position_pct)

NonNegativeLimits == risk_cfg.max_position_pct >= 0 /\ risk_cfg.max_gross_exposure >= 0

WeightsWithinPosition ==
  /\ \A s \in DOMAIN target_weights :
       target_weights[s] >= 0 /\ target_weights[s] <= risk_cfg.max_position_pct
  /\ {s \in DOMAIN target_weights : target_weights[s] # 0} \subseteq Longs

IsRounded(n, pv, w, price) ==
  LET k == w \div (WOne \div 20)
      num == pv * k
      den == 20 * price
  IN  /\ w % (WOne \div 20) = 0
      /\ 2 * Abs(num - n * den) <= den
      /\ 2 * Abs(num - n * den) = den => n % 2 = 0

\* C10: after step 4 the target share count of every universe symbol is a
\* non-negative integer: max(0, round(portfolio_value * weight / price)) when
\* the latest close is positive and 0 when it is not; a symbol degraded to
\* close 0, or an account value of 0, gives target shares 0.
C10_TargetShares ==
  (pc \in {"exec", "snapshot"}) =>
    \A s \in Range(Universe) :
      /\ target_shares[s] \in Nat
      /\ latest_closes[s] <= 0 => target_shares[s] = 0
      /\ portfolio_value = 0 => target_shares[s] = 0
      /\ latest_closes[s] > 0 =>
           \E n \in -400..400 :
             /\ IsRounded(n, portfolio_value, target_weights[s], latest_closes[s])
             /\ target_shares[s] = Max2(0, n)

\* C10 witness: 1.025 * 0.5 / 0.005 = 102.5 is rounded to 102 for SPY, and QQQ,
\* with weight 0.5 and latest close 0, gets 0
C10_Witness ==
  /\ pc = "exec" /\ portfolio_value = 1025
  /\ target_weights["SPY"] = WOne \div 2 /\ latest_closes["SPY"] = 5
  /\ target_shares["SPY"] = 102
  /\ target_weights["QQQ"] = WOne \div 2 /\ latest_closes["QQQ"] = 0
  /\ target_shares["QQQ"] = 0

\* sign of a number
Sgn(x) == IF x > 0 THEN 1 ELSE IF x < 0 THEN -1 ELSE 0

\* the signal column of a frame
SignalColumn(df) == [t \in 1..Len(df) |-> df[t].signal]

\* the closes with the one of row t replaced by v
WithClose(close, t, v) == [close EXCEPT ![t] = v]

\* C11: with rows counted from 1, the signal column of
\* short_term_reversal_backtest is 0 in rows 1 and 2 and
\* -sign(close[t-1] / close[t-2] - 1) in every row t >= 3; it takes values in
\* {-1, 0, 1} only, and replacing the close of row t by any other price leaves
\* the signals of rows 1..t as they are.
C11_SignalLagged ==
  \A b \in backtest :
    LET close == DropNa(b.prices)
    IN  /\ Len(b.df) = Len(close)
        /\ \A t \in 1..Len(close) :
             /\ b.df[t].signal \in {-1, 0, 1}
             /\ t <= 2 => b.df[t].signal = 0
             /\ t >= 3 => b.df[t].signal = -Sgn(close[t - 1] - close[t - 2])
             /\ \A v \in PriceValues :
                  \A u \in 1..t : SignalAt(WithClose(close, t, v), u) = b.df[u].signal

\* C11 witness: prices [100, 102, 101, 101, 103] give signals [0, 0, -1, 1, 0]
C11_Witness ==
  \E b \in backtest :
    /\ DropNa(b.prices) = <<100, 102, 101, 101, 103>>
    /\ SignalColumn(b.df) = <<0, 0, -1, 1, 0>>

\* C12: for a series of at least 2 points latest_reversal_signal equals the
\* last element of the signal column of short_term_reversal_backtest; for a
\* series of fewer than 2 points it is 0.
C12_LatestIsLastSignal ==
  \A b \in backtest :
    /\ Len(DropNa(b.prices)) >= 2 => b.latest = b.df[Len(b.df)].signal
    /\ Len(DropNa(b.prices)) < 2 => b.latest = 0

\* C12 witness: the series ends with a fall followed by a rise; the latest
\* signal is the +1 that answers the fall, as in the last row of the backtest
C12_Witness ==
  \E b \in backtest :
    /\ b.prices = WithNaN(<<100, 102, 101, 103>>, 0)
    /\ b.latest = 1 /\ b.df[4].signal = 1

\* every close of the series is the same
ConstantClose(close) == \A t \in 1..Len(close) : close[t] = close[1]

\* C13: in the rows of short_term_reversal_backtest the first turnover is 0
\* and every later one is |signal[t] - signal[t-1]|, so it is 0, 1 or 2;
\* cost[t] = (cost_bps / 10000) * turnover[t]; the first pnl is 0 and every
\* later one is signal[t] * ret[t] - cost[t]; for a constant close every
\* signal, cost and pnl is 0 and the equity stays 1.
C13_TurnoverCostPnl ==
  \A b \in backtest :
    LET df == b.df
    IN  /\ \A t \in 1..Len(df) :
             /\ df[t].turnover \in {0, 1, 2}
             /\ t = 1 => df[t].turnover = 0 /\ df[t].pnl = 0
             /\ t > 1 => df[t].turnover = Abs(df[t].signal - df[t - 1].signal)
             /\ df[t].cost = b.cost_bps * df[t].turnover
             /\ \A r \in df[t].ret : df[t].pnl = df[t].signal * r - df[t].cost
             /\ t > 1 => df[t].ret # None
        /\ ConstantClose(DropNa(b.prices)) =>
             \A t \in 1..Len(df) :
               /\ df[t].signal = 0 /\ df[t].cost = 0 /\ df[t].pnl = 0
               /\ df[t].equity = BpsOne

\* C13 witness: with cost_bps = 5 the position goes from -1 to +1 in row 4
\* (turnover 2, cost 0.0010) on a flat day, so the pnl of that row is -0.0010
C13_Witness ==
  \E b \in backtest :
    /\ b.cost_bps = 5 /\ Len(b.df) = 5
    /\ b.df[3].signal = -1 /\ b.df[4].signal = 1
    /\ b.df[4].turnover = 2 /\ b.df[4].cost = 10
    /\ b.df[4].ret = {0} /\ b.df[4].pnl = -10

\* C14: in live mode every planned trade attempted so far has exactly one
\* trade-log row, also a trade whose order placement or fill wait raised and a
\* trade whose fill wait timed out; when the loop is over the call has appended
\* as many trade-log rows as it planned trades.
C14_LiveJournalsEveryTrade ==
  (~dry_run /\ Validated) =>
    /\ Len(NewRows(TRADES_CSV, csv0[1])) = tradeIdx - 1
    /\ \A k \in 1..Len(NewRows(TRADES_CSV, csv0[1])) :
         /\ NewRows(TRADES_CSV, csv0[1])[k].symbol = trades_to_make[k].symbol
         /\ NewRows(TRADES_CSV, csv0[1])[k].side = trades_to_make[k].side
         /\ NewRows(TRADES_CSV, csv0[1])[k].quantity = trades_to_make[k].qty
    /\ pc \in {"snapshot", "idle"} =>
         Len(NewRows(TRADES_CSV, csv0[1])) = Len(trades_to_make)

\* what a returned wait_for_fill gave back, against its clock and its order
WaitReturnsRight ==
  fill_wait.pc = "returned" =>
    \E r \in fill_wait.result :
      /\ r.avg_price = fill_wait.trade.avg /\ r.filled_qty = fill_wait.trade.filled
      /\ r.filled => /\ IsDone(fill_wait.trade)
                     /\ fill_wait.now - fill_wait.start < fill_wait.timeout_seconds
      /\ ~r.filled => fill_wait.now - fill_wait.start >= fill_wait.timeout_seconds

\* a poll that sees a done order before the timeout returns at once
ReturnsOnFirstDonePoll ==
  ( /\ fill_wait.pc = "loop" /\ fill_wait' # fill_wait
    /\ IsDone(fill_wait.trade)
    /\ fill_wait.now - fill_wait.start < fill_wait.timeout_seconds )
  => fill_wait'.pc = "returned" /\ fill_wait'.result = WaitResult(TRUE, fill_wait.trade)

\* passes of the live loop that raised nothing
Waited == SelectSeq(exec_log, LAMBDA o : ~o.raised)

\* in run_live a wait that timed out is no error: the trade is not among the
\* fills and has its trade-log row with the last known fill price
TimeoutsJournaled ==
  (~dry_run /\ Validated) =>
    /\ outcome # "error" /\ Len(exec_log) = tradeIdx - 1
    /\ Len(NewRows(TRADES_CSV, csv0[1])) = Len(Waited)
    /\ \A k \in 1..Len(Waited) :
         NewRows(TRADES_CSV, csv0[1])[k].fill_price = Waited[k].avg_price
    /\ Len(fills) = Len(SelectSeq(Waited, LAMBDA o : o.filled))

\* C15: a wait_for_fill call always returns; it returns filled = true with the
\* order's average price and filled quantity at the first poll that finds the
\* order done before the timeout, and filled = false with the last known
\* average price and filled quantity once the timeout has elapsed; in run_live
\* a timed-out wait raises nothing, adds nothing to fills and still gets its
\* trade-log row with the last known fill price.
C15_WaitForFillReturns ==
  /\ (fill_wait.pc = "loop") ~> (fill_wait.pc = "returned")
  /\ [](WaitReturnsRight /\ TimeoutsJournaled)
  /\ [][ReturnsOnFirstDonePoll]_vars

\* C15 witness: an order half filled when the timeout of 1.5 s has elapsed:
\* filled = false, average price 11, 2 shares
C15_Witness ==
  /\ fill_wait.pc = "returned" /\ fill_wait.timeout_seconds = 3
  /\ fill_wait.now - fill_wait.start >= 3
  /\ fill_wait.trade = Order("Submitted", 2, 11)
  /\ fill_wait.result = {[filled |-> FALSE, avg_price |-> 11, filled_qty |-> 2]}

\* the unrealized P&L the portfolio log should carry for the position p: a last
\* close is available for a universe symbol whose price fetch was not degraded
ExpectedUnrealized(p) ==
  IF /\ p.symbol \in Range(Universe) /\ p.symbol \notin fetch_failed
     /\ p.avg_cost # 0
  THEN (latest_closes[p.symbol] - p.avg_cost) * p.position
  ELSE 0

\* C16: once step 6 has run, the portfolio log has gained exactly one row per
\* position returned by the broker, in order, with unrealized_pnl =
\* (last close - avg_cost) * position when a last close and an average cost
\* are available and 0 otherwise: 0 for a held symbol whose price fetch was
\* degraded and for a held symbol outside the universe.
C16_PortfolioRows ==
  (Validated /\ pc \in {"snapshot", "idle"}) =>
    /\ Len(NewRows(PORTFOLIO_CSV, csv0[2])) = Len(positions_raw)
    /\ \A k \in 1..Len(positions_raw) :
         /\ NewRows(PORTFOLIO_CSV, csv0[2])[k].symbol = positions_raw[k].symbol
         /\ NewRows(PORTFOLIO_CSV, csv0[2])[k].position = positions_raw[k].position
         /\ NewRows(PORTFOLIO_CSV, csv0[2])[k].unrealized_pnl
              = ExpectedUnrealized(positions_raw[k])

\* the order placements and fill waits of the current call, in order
ExecCalls == SelectSeq(calls, LAMBDA c : c.op \in {"place_order", "wait_for_fill"})

\* the broker calls of steps 1 and 2
FetchCalls ==
  << Call("account_summary", "", "", 0), Call("positions", "", "", 0) >>
  \o [k \in 1..Len(Universe) |-> BarsCall(Universe[k], FALSE)]

\* the second positions() call, made iff live orders were attempted
RefreshCalls ==
  IF ~dry_run /\ PlaceCalls # << >> THEN << Call("positions", "", "", 0) >> ELSE << >>

\* C17: a call of run_live that passed validation makes its broker calls and
\* journal appends in this order: account summary, positions, one bar fetch
\* per universe symbol with use_cache = false, then the order placements (or
\* the dry-run trade rows), then the portfolio-log rows, then a second account
\* summary, then the snapshot-log row; positions() is called a second time iff
\* live orders were attempted, so a dry run and a live call with no planned
\* trade reuse the positions of step 1.
C17_CallOrder ==
  Validated =>
    /\ pc = "exec" =>
         /\ calls = FetchCalls \o ExecCalls
         /\ Len(PORTFOLIO_CSV) = csv0[2] /\ Len(SNAPSHOT_CSV) = csv0[3]
    /\ pc = "snapshot" =>
         /\ calls = FetchCalls \o ExecCalls \o RefreshCalls
         /\ Len(SNAPSHOT_CSV) = csv0[3]
    /\ (pc = "idle" /\ outcome = "done") =>
         /\ calls = FetchCalls \o ExecCalls \o RefreshCalls
                    \o << Call("account_summary", "", "", 0) >>
         /\ Len(NewRows(SNAPSHOT_CSV, csv0[3])) = 1

\* every SELL planned is for some, at most all, of the shares held at step 1
SellsWithinHolding ==
  Validated =>
    \A k \in 1..Len(trades_to_make) :
      trades_to_make[k].side = "SELL" =>
        trades_to_make[k].qty \in 1..Get(current_positions, trades_to_make[k].symbol, 0)

\* no position at the broker is negative
NoShortPosition == \A s \in DOMAIN brokerPos : brokerPos[s].position >= 0

SameInputs(b) ==
  /\ b.risk_cfg = risk_cfg /\ b.portfolio_value = last_call.sized_with
  /\ b.signals = signals /\ b.latest_closes = latest_closes

\* C19: a call that follows a live call whose orders all filled in full, and
\* that sees the same account value, closes and signals (under the same
\* limits), plans no trade and appends nothing to the trade log; a dry run
\* that follows a dry run over the same inputs plans the same trades again and
\* journals them again.
C19_ConvergesInOneStep ==
  Validated =>
    \A b \in last_call.before :
      SameInputs(b) =>
        /\ b.all_filled =>
             trades_to_make = << >> /\ Len(TRADES_CSV) = csv0[1]
        /\ (b.dry_run /\ dry_run) =>
             /\ trades_to_make = b.trades_to_make
             /\ pc \in {"snapshot", "idle"} =>
                  Len(NewRows(TRADES_CSV, csv0[1])) = Len(b.trades_to_make)

\* C19 witness: the first call bought 51 SPY and 51 QQQ and was filled in
\* full; the second, on the same inputs, is done and planned nothing
C19_Witness ==
  /\ iter = 2 /\ outcome = "done" /\ trades_to_make = << >>
  /\ \E b \in last_call.before :
       /\ SameInputs(b) /\ b.all_filled
       /\ b.trades_to_make = << [symbol |-> "SPY", side |-> "BUY", qty |-> 51],
                                [symbol |-> "QQQ", side |-> "BUY", qty |-> 51] >>
  /\ Len(TRADES_CSV) = csv0[1]

\* C20: main() opens no broker connection to the live TWS port unless
\* --mode live and --i-understand-live were both given, and the port of the
\* order-placing broker of --run live is the one enforce_ibkr_safety accepted.
C20_LivePortGuarded ==
  \A d \in desk_run :
    \A k \in 1..Len(d.result.connections) :
      LET c == d.result.connections[k]
      IN  /\ c.port = TWS_LIVE_PORT =>
               d.args.mode = "live" /\ d.args.i_understand_live
          /\ c.broker = "IBKRBroker" =>
               /\ c.port = d.args.ibkr_port
               /\ enforce_ibkr_safety(d.args.mode, c.port, d.args.i_understand_live)

====
